---- MODULE Spec2Model ----
(***************************************************************************)
(* Model of sensei's documentation ingestion pipeline:                     *)
(*   - the recursive markdown chunker (sensei/tome/chunker.py), run as a   *)
(*     step machine over an arena of SectionData nodes (ChunkSpec);        *)
(*   - the generation-based crawler (sensei/tome/crawler.py) with its      *)
(*     storage calls and the readers of sensei/tome/service.py (Spec);     *)
(*   - flatten_section_tree, storage.save_sections as one database         *)
(*     transaction and the join of tome_get, over every small section      *)
(*     tree (StoreSpec).                                                   *)
(* Text is a sequence of one-character strings, so that split("\n"),       *)
(* "\n".join and len(content.split()) are computed, not assumed.           *)
(***************************************************************************)
EXTENDS FiniteSets, Integers, Sequences, TLC

VARIABLES
    \* chunker (ChunkSpec)
    content,        \* the text handed to chunk_markdown
    max_tokens,     \* its size budget
    nodes,          \* arena of SectionData nodes; node 1 is the root
    stack,          \* indices of sections with a pending _chunk_section call
    status,         \* "start", "running", "returned", "raised"
    error,          \* which BrokenInvariant was raised: "none", "content", "section"
    reconstructed,  \* result of reconstruct_content on the returned tree
    \* sections of one document: flattening, saving, reading back
    flat,           \* what flatten_section_tree returned for the tree
    got,            \* what tome_get joined from the document's sections
    stored,         \* the sections table as committed
    session,        \* the database session of one save_sections call
    \* pure functions of the parser and the service layer
    raw_urls,       \* link destinations found in an llms.txt, in order
    parsed,         \* what parse_llms_txt_links returned for them
    toc,            \* input and result of _build_toc_tree
    \* crawler, storage and readers (Spec)
    phase,          \* per ingest_domain call: where it is / how it ended
    dom,            \* per call: normalized_domain
    gen,            \* per call: generation_id
    maxDepth,       \* per call: max_depth
    req,            \* per call: the crawler's request queue, by URL
    result,         \* per call: the IngestResult being filled
    docs,           \* the documents table (with its sections)
    nextGen,        \* source of fresh generation ids (uuid4)
    everCrawled,    \* domains for which a non-empty generation was activated
    lastRead        \* what the tome_get / tome_search call of this step observed

storeVars == <<flat, got, stored, session>>

auxVars == <<raw_urls, parsed, toc>>

chunkVars == <<content, max_tokens, nodes, stack, status, error, reconstructed,
               storeVars, auxVars>>

crawlVars == <<phase, dom, gen, maxDepth, req, result, docs, nextGen,
               everCrawled, lastRead>>

\* ------------------------------------------------------------------ bounds
MaxLines == 4
MaxTokens == 3
MaxGens == 2        \* ingest_domain calls in one behaviour
MaxDepthArg == 1    \* largest max_depth passed to ingest_domain
MaxRetries == 0     \* retries the crawler grants a failed request

\* ------------------------------------------------------------- characters
NL == "\n"
SP == " "

IsSpace(ch) == ch = SP \/ ch = NL

\* The lines input texts are built from: blank, a word, ATX headings of
\* levels 1..3 and a setext underline.
LineVocabulary ==
    { <<>>,
      <<"w">>,
      <<"#", SP, "w">>,
      <<"#", "#", SP, "w">>,
      <<"#", "#", "#", SP, "w">>,
      <<"=">> }

\* ---------------------------------------------------------- str.split("\n")
RECURSIVE SplitAcc(_, _, _)
SplitAcc(s, cur, acc) ==
    IF s = <<>> THEN Append(acc, cur)
    ELSE IF Head(s) = NL THEN SplitAcc(Tail(s), <<>>, Append(acc, cur))
    ELSE SplitAcc(Tail(s), Append(cur, Head(s)), acc)

Split(s) == SplitAcc(s, <<>>, <<>>)

\* ------------------------------------------------------------ "\n".join(parts)
RECURSIVE Join(_)
Join(parts) ==
    IF parts = <<>> THEN <<>>
    ELSE IF Len(parts) = 1 THEN parts[1]
    ELSE parts[1] \o <<NL>> \o Join(Tail(parts))

\* lines[a:b] of Python, 0-indexed, b exclusive
Slice(lines, a, b) == SubSeq(lines, a + 1, b)

\* len(content.split()): the number of maximal runs of non-whitespace
count_tokens(s) ==
    Cardinality({ i \in 1..Len(s) :
        /\ ~IsSpace(s[i])
        /\ (i = 1 \/ IsSpace(s[i - 1])) })

\* --------------------------------------------------------- heading parser
\* Level of an ATX heading line (1..6 '#' followed by a space or the end of
\* the line), 0 when the line is not one.
RECURSIVE LeadingHashes(_)
LeadingHashes(line) ==
    IF line # <<>> /\ Head(line) = "#" THEN 1 + LeadingHashes(Tail(line)) ELSE 0

ATXLevel(line) ==
    LET k == LeadingHashes(line)
    IN  IF k >= 1 /\ k <= 6 /\ (Len(line) = k \/ line[k + 1] = SP) THEN k ELSE 0

ATXText(line) ==
    LET k == LeadingHashes(line)
    IN  IF Len(line) > k + 1 THEN SubSeq(line, k + 2, Len(line)) ELSE <<>>

IsBlank(line) == \A i \in 1..Len(line) : line[i] = SP

IsSetextUnderline(line) == line # <<>> /\ \A i \in 1..Len(line) : line[i] = "="

\* The block scan of the markdown parser over the lines of the content.
\* i is the 0-indexed current line, para the 0-indexed first line of the
\* open paragraph or -1.  A setext heading starts where its paragraph
\* starts; an ATX heading or a blank line closes the paragraph.
RECURSIVE ScanHeadings(_, _, _, _)
ScanHeadings(lines, i, para, acc) ==
    IF i >= Len(lines) THEN acc
    ELSE LET line == lines[i + 1]
         IN  IF ATXLevel(line) > 0
             THEN ScanHeadings(lines, i + 1, -1,
                    Append(acc, [text |-> ATXText(line), level |-> ATXLevel(line),
                                 start_line |-> i, end_line |-> i + 1]))
             ELSE IF IsBlank(line)
             THEN ScanHeadings(lines, i + 1, -1, acc)
             ELSE IF IsSetextUnderline(line) /\ para >= 0
             THEN ScanHeadings(lines, i + 1, -1,
                    Append(acc, [text |-> Join(Slice(lines, para, i)), level |-> 1,
                                 start_line |-> para, end_line |-> i + 1]))
             ELSE ScanHeadings(lines, i + 1, IF para >= 0 THEN para ELSE i, acc)

_find_headings(text) == ScanHeadings(Split(text), 0, -1, <<>>)

\* ------------------------------------------------------------ SectionData
NoneHeading == << "None" >>

\* reconstruct_content has not run
NoText == << "None" >>

SectionData(heading, level, text, children) ==
    [heading |-> heading, level |-> level, content |-> text,
     children |-> children, start_line |-> 0]

\* ------------------------------------------------------- sequence helpers
RECURSIVE SelectSeqBy(_, _)
SelectSeqBy(s, keep) ==
    IF s = <<>> THEN <<>>
    ELSE IF Head(s) \in keep THEN <<Head(s)>> \o SelectSeqBy(Tail(s), keep)
    ELSE SelectSeqBy(Tail(s), keep)

MinLevel(headings) ==
    CHOOSE l \in { headings[i].level : i \in 1..Len(headings) } :
        \A i \in 1..Len(headings) : l <= headings[i].level

\* ---------------------------------------------- _split_by_headings_at_level
\* mutant: min_level is ignored
FilterHeadings_Unfiltered(all, has_min, min_level) == all

\* the headings of level >= min_level; has_min = FALSE is min_level=None
FilterHeadings(all, has_min, min_level) ==
    IF has_min
    THEN SelectSeqBy(all, { h \in { all[i] : i \in 1..Len(all) } :
                             h.level >= min_level })
    ELSE all

\* mutant: every remaining heading starts a section
TopHeadings_AllLevels(headings) == headings

\* the headings at the top (minimum) level found
TopHeadings(headings) ==
    SelectSeqBy(headings, { h \in { headings[i] : i \in 1..Len(headings) } :
                             h.level = MinLevel(headings) })

\* the section from a heading's first line up to end_line (exclusive)
SectionFrom(lines, heading, end_line) ==
    [heading |-> heading.text, level |-> heading.level,
     content |-> Join(Slice(lines, heading.start_line, end_line)),
     children |-> <<>>, start_line |-> heading.start_line]

\* one section per top heading, each running to the next top heading or to
\* the end of the lines
SectionsAt(lines, top_headings) ==
    [ i \in 1..Len(top_headings) |->
        SectionFrom(lines, top_headings[i],
                    IF i + 1 <= Len(top_headings)
                    THEN top_headings[i + 1].start_line
                    ELSE Len(lines)) ]

_split_by_headings_at_level(lines, has_min, min_level) ==
    IF FilterHeadings(_find_headings(Join(lines)), has_min, min_level) = <<>>
    THEN <<>>
    ELSE SectionsAt(lines,
           TopHeadings(FilterHeadings(_find_headings(Join(lines)),
                                      has_min, min_level)))

_split_by_top_level_headings(lines) == _split_by_headings_at_level(lines, FALSE, 0)

\* mutant: re-splits at the parent's own level (min_level=parent_level)
_split_by_subheadings_SameLevel(lines, parent_level) ==
    _split_by_headings_at_level(lines, TRUE, parent_level)

_split_by_subheadings(lines, parent_level) ==
    _split_by_headings_at_level(lines, TRUE, parent_level + 1)

_extract_intro(lines, sub_sections) ==
    IF sub_sections = <<>> THEN Join(lines)
    ELSE LET start_line == sub_sections[1].start_line
         IN  IF start_line = 0 THEN <<>> ELSE Join(Slice(lines, 0, start_line))

\* ------------------------------------------------------ reconstruct_content
\* tree is the arena of SectionData, children are indices into it.
RECURSIVE reconstruct_content(_, _)
RECURSIVE ReconstructAll(_, _)
ReconstructAll(tree, idxs) ==
    IF idxs = <<>> THEN <<>>
    ELSE <<reconstruct_content(tree, Head(idxs))>> \o ReconstructAll(tree, Tail(idxs))

reconstruct_content(tree, i) ==
    LET section == tree[i]
    IN  IF section.children = <<>> THEN section.content
        ELSE Join((IF section.content # <<>> THEN <<section.content>> ELSE <<>>)
                  \o ReconstructAll(tree, section.children))


\* ================================================ crawler, storage, readers
vars == <<chunkVars, crawlVars>>

Crawls == {1, 2}                    \* concurrent ingest_domain calls
Domains == {"d1.dev"}               \* normalized domains

\* The site: the manifest links to /a and to a page of another site, /a
\* links to /b (written with the www host) and back to the manifest, /b to
\* /a.  The server may answer /a itself or redirect it, to the manifest or
\* to the page of the other site, which links to itself.
Manifest == "/llms.txt"
OtherSite == "https://docs.other.org/x"
Urls == {Manifest, "/a", "/b", OtherSite}

Links(url) ==
    IF url = Manifest THEN {"/a", OtherSite}
    ELSE IF url = "/a" THEN {"/b", Manifest}
    ELSE IF url = "/b" THEN {"/a"}
    ELSE {OtherSite}

\* the URLs a fetch of url can end at (request.loaded_url)
Redirects(url) == IF url = "/a" THEN {"/a", Manifest, OtherSite} ELSE {url}

\* the host of a URL, as its labels
UrlHost(url) ==
    IF url = OtherSite THEN <<"docs", "other", "org">>
    ELSE IF url = "/b" THEN <<"www", "d1", "dev">>
    ELSE <<"d1", "dev">>

\* extract_path (parser.py 113-122)
extract_path(url) == IF url = OtherSite THEN "/x" ELSE url

\* Domain._normalize (types.py 92-101): the registrable domain, the label
\* under the public suffix and the suffix (one label for dev and org)
Domain(host) ==
    IF SubSeq(host, Len(host) - 1, Len(host)) = <<"d1", "dev">> THEN "d1.dev"
    ELSE IF SubSeq(host, Len(host) - 1, Len(host)) = <<"other", "org">>
    THEN "other.org"
    ELSE "invalid"

\* is_same_domain (parser.py 95-110)
is_same_domain(base_url, target_url) ==
    Domain(UrlHost(base_url)) = Domain(UrlHost(target_url))

NoRequest == [st |-> "none", depth |-> 0, tries |-> 0, err |-> "none"]

\* the request queue of a crawler that does not exist (before ingest_domain
\* built it, after ingest_domain returned or raised)
NoQueue == [u \in Urls |-> NoRequest]

NoRead == [op |-> "none", domain |-> "none", outcome |-> "none",
           gens |-> {}, active |-> {}, crawled |-> FALSE,
           query |-> << >>, storage |-> FALSE, results |-> 0]

CrawlIdle ==
    /\ phase = [c \in Crawls |-> "idle"]
    /\ dom = [c \in Crawls |-> "none"]
    /\ gen = [c \in Crawls |-> 0]
    /\ maxDepth = [c \in Crawls |-> 0]
    /\ req = [c \in Crawls |-> NoQueue]
    /\ result = [c \in Crawls |-> [documents_added |-> 0, errors |-> <<>>]]
    /\ docs = {}
    /\ nextGen = 1
    /\ everCrawled = {}
    /\ lastRead = NoRead

\* ------------------------------------------------- sections of a document
Documents == {"d1", "d2"}

\* the document whose text was fetched and chunked
Ingested == "d1"

\* the id of a Section that was not flushed yet, and the parent of a root
NoneId == << >>

NotFlat == [done |-> FALSE, sections |-> << >>]

NoSession == [state |-> "closed", document_id |-> "none",
              deleted |-> {}, added |-> << >>]

\* a row of the sections table (migration 003)
SectionRow(id, document_id, parent_id, node, position) ==
    [id |-> id, document_id |-> document_id, parent_section_id |-> parent_id,
     heading |-> node.heading, level |-> node.level,
     content |-> node.content, position |-> position]

\* Section(...) as the constructor leaves it: id has a server-side default
\* (gen_random_uuid()), so it stays None until the row is flushed
Section(document_id, parent_id, node, position) ==
    SectionRow(NoneId, document_id, parent_id, node, position)

\* the sections of earlier ingestions: d1 has a parent and a child, d2 one
PriorNode(name) ==
    [heading |-> <<name>>, level |-> 1, content |-> <<"o">>, children |-> << >>]

PriorTable ==
    { SectionRow(<<"s", 1>>, "d1", NoneId, PriorNode("p"), 0),
      SectionRow(<<"s", 2>>, "d1", <<"s", 1>>, PriorNode("q"), 1),
      SectionRow(<<"s", 3>>, "d2", NoneId, PriorNode("r"), 0) }

NotParsed == [done |-> FALSE, links |-> << >>]

NoToc == [done |-> FALSE, sections |-> << >>, entries |-> << >>]

AuxIdle ==
    /\ raw_urls = << >>
    /\ parsed = NotParsed
    /\ toc = NoToc

StoreIdle ==
    /\ flat = NotFlat
    /\ got = NoText
    /\ stored = PriorTable
    /\ session = NoSession

ChunkIdle ==
    /\ content = <<>>
    /\ max_tokens = 1
    /\ nodes = <<>>
    /\ stack = <<>>
    /\ status = "start"
    /\ error = "none"
    /\ reconstructed = NoText
    /\ StoreIdle

Init == CrawlIdle /\ ChunkIdle /\ AuxIdle

\* ------------------------------------------------------------------ storage
\* generations of a domain that have an active document
ActiveGens(d) == { doc.gen : doc \in { x \in docs : x.domain = d /\ x.active } }

\* insert_document: a new row of the generation, not active
insert_document(table, id, d, url, g) ==
    table \cup { [id |-> id, domain |-> d, url |-> url, path |-> extract_path(url),
                  gen |-> g, active |-> FALSE, sections |-> FALSE] }

\* save_sections: replaces the sections of the document
save_sections(table, id) ==
    { IF doc.id = id THEN [doc EXCEPT !.sections = TRUE] ELSE doc : doc \in table }

\* mutant: activates the generation and leaves the others as they are
activate_generation_NoDeactivate(table, d, g) ==
    { IF doc.domain = d /\ doc.gen = g THEN [doc EXCEPT !.active = TRUE] ELSE doc :
        doc \in table }

\* activate_generation: one transaction that activates the generation and
\* deactivates every other generation of the domain
activate_generation(table, d, g) ==
    { IF doc.domain = d THEN [doc EXCEPT !.active = (doc.gen = g)] ELSE doc :
        doc \in table }

\* cleanup_old_generations: deletes the domain's inactive documents
cleanup_old_generations(table, d) ==
    { doc \in table : ~(doc.domain = d /\ ~doc.active) }

\* ------------------------------------------------------------ ingest_domain
Finished(c) == phase[c] \in {"idle", "Success", "TransientError", "ActivateError"}

\* ingest_domain up to crawler.run (crawler.py 134-155, 220)
Start(c, d, md) ==
    /\ Finished(c)
    /\ nextGen <= MaxGens
    /\ c = 2 => phase[1] # "idle"      \* the calls are interchangeable
    /\ phase' = [phase EXCEPT ![c] = "crawling"]
    /\ dom' = [dom EXCEPT ![c] = d]
    /\ gen' = [gen EXCEPT ![c] = nextGen]
    /\ nextGen' = nextGen + 1
    /\ maxDepth' = [maxDepth EXCEPT ![c] = md]
    /\ req' = [req EXCEPT ![c] =
                 [u \in Urls |-> IF u = Manifest
                                 THEN [NoRequest EXCEPT !.st = "queued"]
                                 ELSE NoRequest]]
    /\ result' = [result EXCEPT ![c] = [documents_added |-> 0, errors |-> <<>>]]
    /\ UNCHANGED <<docs, everCrawled>>
    /\ lastRead' = NoRead
    /\ UNCHANGED chunkVars

\* What the crawler does with a request whose fetch or handler failed: it is
\* queued again until its retries are used up, then marked failed; run()
\* goes on with the other requests.
RequestError(r, why) ==
    IF r.tries < MaxRetries
    THEN [r EXCEPT !.st = "queued", !.tries = r.tries + 1]
    ELSE [r EXCEPT !.st = "failed", !.err = why]

\* the fetch of a request ends in a transport error or a timeout
FetchError(c, u) ==
    /\ phase[c] = "crawling"
    /\ req[c][u].st = "queued"
    /\ req' = [req EXCEPT ![c][u] = RequestError(req[c][u], "fetch")]
    /\ UNCHANGED <<phase, dom, gen, maxDepth, result, docs, nextGen,
                   everCrawled>>
    /\ lastRead' = NoRead
    /\ UNCHANGED chunkVars

\* --------------------------------------------------------------- responses
\* A Content-Type header value is a sequence of tokens: a media type, ";",
\* " " and parameters.  NoHeader is the missing header (None).
NoHeader == << "None" >>

ALLOWED_CONTENT_TYPES == {"text/markdown", "text/plain", "text/x-markdown"}

ContentTypes ==
    { NoHeader,
      <<"text/markdown">>,
      <<"TEXT/PLAIN", ";", SP, "charset=utf-8">>,
      <<SP, "text/x-markdown", SP>>,
      <<"text/html", ";", SP, "text/plain">> }

\* what a fetch can answer: the header and whether the body is valid UTF-8
Responses == [content_type : ContentTypes, utf8 : BOOLEAN]

\* str.lower() on the tokens of the vocabulary
Lower(tok) == IF tok = "TEXT/PLAIN" THEN "text/plain" ELSE tok

\* content_type.split(";")[0]
BeforeSemicolon(ct) ==
    IF \E i \in 1..Len(ct) : ct[i] = ";"
    THEN SubSeq(ct, 1, (CHOOSE i \in 1..Len(ct) :
                          ct[i] = ";" /\ \A j \in 1..(i - 1) : ct[j] # ";") - 1)
    ELSE ct

\* str.strip()
RECURSIVE Strip(_)
Strip(ct) ==
    IF ct = <<>> THEN ct
    ELSE IF Head(ct) = SP THEN Strip(Tail(ct))
    ELSE IF ct[Len(ct)] = SP THEN Strip(SubSeq(ct, 1, Len(ct) - 1))
    ELSE ct

\* content_type.split(";")[0].strip().lower()
MediaType(ct) == [ i \in 1..Len(Strip(BeforeSemicolon(ct))) |->
                     Lower(Strip(BeforeSemicolon(ct))[i]) ]

\* is_markdown_content (crawler.py 49-62)
is_markdown_content(ct) ==
    IF ct = NoHeader \/ ct = <<>> THEN FALSE
    ELSE Len(MediaType(ct)) = 1 /\ MediaType(ct)[1] \in ALLOWED_CONTENT_TYPES

\* the entry handle_document appends to result.errors for a response it
\* skips (crawler.py 168, 176)
SkipMessage(resp, u) ==
    IF ~is_markdown_content(resp.content_type)
    THEN [kind |-> "Invalid content type", detail |-> resp.content_type, url |-> u]
    ELSE [kind |-> "Non-text content", detail |-> <<>>, url |-> u]

\* mutant: the links of a skipped response are enqueued all the same
SkipResponse_Enqueues(c, u, resp) ==
    /\ phase[c] = "crawling"
    /\ req[c][u].st = "queued"
    /\ ~is_markdown_content(resp.content_type) \/ ~resp.utf8
    /\ result' = [result EXCEPT ![c].errors = Append(@, SkipMessage(resp, u))]
    /\ req' = [req EXCEPT ![c] =
                 [v \in DOMAIN req[c] |->
                    IF v = u THEN [req[c][u] EXCEPT !.st = "handled"]
                    ELSE IF v \in Links(u) /\ req[c][v].st = "none"
                    THEN [req[c][v] EXCEPT !.st = "queued",
                                           !.depth = req[c][u].depth + 1]
                    ELSE req[c][v]]]
    /\ UNCHANGED <<phase, dom, gen, maxDepth, docs, nextGen, everCrawled>>
    /\ lastRead' = NoRead
    /\ UNCHANGED chunkVars

\* handle_document on a response that is not markdown (crawler.py 165-170)
\* or whose body does not decode (172-177)
SkipResponse(c, u, resp) ==
    /\ phase[c] = "crawling"
    /\ req[c][u].st = "queued"
    /\ ~is_markdown_content(resp.content_type) \/ ~resp.utf8
    /\ result' = [result EXCEPT ![c].errors = Append(@, SkipMessage(resp, u))]
    /\ req' = [req EXCEPT ![c][u].st = "handled"]
    /\ UNCHANGED <<phase, dom, gen, maxDepth, docs, nextGen, everCrawled>>
    /\ lastRead' = NoRead
    /\ UNCHANGED chunkVars

DocId(c, u) == <<gen[c], u, req[c][u].tries>>

\* handle_document up to the insert (crawler.py 160-188)
InsertDocument(c, u) ==
    /\ phase[c] = "crawling"
    /\ req[c][u].st = "queued"
    /\ \E resp \in Responses : is_markdown_content(resp.content_type) /\ resp.utf8
    /\ \E url \in Redirects(u) :
          docs' = insert_document(docs, DocId(c, u), dom[c], url, gen[c])
    /\ result' = [result EXCEPT ![c].documents_added = @ + 1]
    /\ req' = [req EXCEPT ![c][u].st = "inserted"]
    /\ UNCHANGED <<phase, dom, gen, maxDepth, nextGen, everCrawled>>
    /\ lastRead' = NoRead
    /\ UNCHANGED chunkVars

\* mutant: links of a document at depth max_depth are enqueued too
WithinDepth_Inclusive(current_depth, max_depth) == current_depth <= max_depth

\* if current_depth < max_depth (crawler.py 197)
WithinDepth(current_depth, max_depth) == current_depth < max_depth

\* context.add_requests: the queue ignores a URL it already knows
add_requests(queue, links, depth) ==
    [u \in Urls |-> IF u \in links /\ queue[u].st = "none"
                    THEN [NoRequest EXCEPT !.st = "queued", !.depth = depth]
                    ELSE queue[u]]

\* the links handle_document enqueues (crawler.py 197-216)
Enqueue(queue, u, current_depth, max_depth) ==
    IF WithinDepth(current_depth, max_depth)
    THEN add_requests(queue, { l \in Links(u) : is_same_domain(u, l) },
                      current_depth + 1)
    ELSE queue

\* handle_document from chunk_markdown to its end (crawler.py 190-216)
SaveSections(c, u) ==
    /\ phase[c] = "crawling"
    /\ req[c][u].st = "inserted"
    /\ IF \E doc \in docs : doc.id = DocId(c, u)
       THEN /\ docs' = save_sections(docs, DocId(c, u))
            /\ req' = [req EXCEPT ![c] =
                         Enqueue([req[c] EXCEPT ![u].st = "handled"],
                                 (CHOOSE doc \in docs : doc.id = DocId(c, u)).url,
                                 req[c][u].depth, maxDepth[c])]
       ELSE \* the document row is gone: the insert of its sections fails
            /\ req' = [req EXCEPT ![c][u] = RequestError(req[c][u], "handler")]
            /\ UNCHANGED docs
    /\ UNCHANGED <<phase, dom, gen, maxDepth, result, nextGen, everCrawled>>
    /\ lastRead' = NoRead
    /\ UNCHANGED chunkVars

\* chunk_markdown raises BrokenInvariant in handle_document (crawler.py 191)
ChunkRaises(c, u) ==
    /\ phase[c] = "crawling"
    /\ req[c][u].st = "inserted"
    /\ req' = [req EXCEPT ![c][u] = RequestError(req[c][u], "chunk")]
    /\ UNCHANGED <<phase, dom, gen, maxDepth, result, docs, nextGen,
                   everCrawled>>
    /\ lastRead' = NoRead
    /\ UNCHANGED chunkVars

\* crawler.run raises (crawler.py 222-225)
RunRaises(c) ==
    /\ phase[c] = "crawling"
    /\ phase' = [phase EXCEPT ![c] = "TransientError"]
    /\ req' = [req EXCEPT ![c] = NoQueue]
    /\ UNCHANGED <<dom, gen, maxDepth, result, docs, nextGen, everCrawled>>
    /\ lastRead' = NoRead
    /\ UNCHANGED chunkVars

\* mutant: run() keeps waiting for a request that has failed
RunReturned_WaitsForFailed(c) ==
    /\ phase[c] = "crawling"
    /\ \A u \in Urls : req[c][u].st \in {"none", "handled"}

\* mutant: run() returns while requests are still queued or being handled
RunReturned_Early(c) == phase[c] = "crawling"

\* crawler.run has returned: no request is queued or in flight
RunReturned(c) ==
    /\ phase[c] = "crawling"
    /\ \A u \in Urls : req[c][u].st \in {"none", "handled", "failed"}

\* activate_generation after the crawl (crawler.py 227-228)
Activate(c) ==
    /\ RunReturned(c)
    /\ docs' = activate_generation(docs, dom[c], gen[c])
    /\ phase' = [phase EXCEPT ![c] = "activated"]
    /\ everCrawled' = IF \E doc \in docs : doc.domain = dom[c] /\ doc.gen = gen[c]
                                           /\ doc.sections
                      THEN everCrawled \cup {dom[c]} ELSE everCrawled
    /\ UNCHANGED <<dom, gen, maxDepth, req, result, nextGen>>
    /\ lastRead' = NoRead
    /\ UNCHANGED chunkVars

\* activate_generation fails: its transaction changes nothing and the
\* exception leaves ingest_domain
ActivateFails(c) ==
    /\ RunReturned(c)
    /\ phase' = [phase EXCEPT ![c] = "ActivateError"]
    /\ req' = [req EXCEPT ![c] = NoQueue]
    /\ UNCHANGED <<dom, gen, maxDepth, result, docs, nextGen, everCrawled>>
    /\ lastRead' = NoRead
    /\ UNCHANGED chunkVars

\* cleanup_old_generations and return Success (crawler.py 231-245)
Cleanup(c) ==
    /\ phase[c] = "activated"
    /\ docs' = cleanup_old_generations(docs, dom[c])
    /\ phase' = [phase EXCEPT ![c] = "Success"]
    /\ req' = [req EXCEPT ![c] = NoQueue]
    /\ UNCHANGED <<dom, gen, maxDepth, result, nextGen, everCrawled>>
    /\ lastRead' = NoRead
    /\ UNCHANGED chunkVars

\* mutant: a failing cleanup fails the ingest call
CleanupFails_Raises(c) ==
    /\ phase[c] = "activated"
    /\ phase' = [phase EXCEPT ![c] = "TransientError"]
    /\ req' = [req EXCEPT ![c] = NoQueue]
    /\ UNCHANGED <<dom, gen, maxDepth, result, docs, nextGen, everCrawled>>
    /\ lastRead' = NoRead
    /\ UNCHANGED chunkVars

\* cleanup_old_generations raises (crawler.py 234-237)
CleanupFails(c) ==
    /\ phase[c] = "activated"
    /\ result' = [result EXCEPT ![c].errors =
                                 Append(@, [kind |-> "Cleanup failed", detail |-> <<>>,
                                            url |-> "none"])]
    /\ phase' = [phase EXCEPT ![c] = "Success"]
    /\ req' = [req EXCEPT ![c] = NoQueue]
    /\ UNCHANGED <<dom, gen, maxDepth, docs, nextGen, everCrawled>>
    /\ lastRead' = NoRead
    /\ UNCHANGED chunkVars

\* ------------------------------------------------------------------ readers
\* search_sections_fts (storage.py 495-564): the sections of the documents
\* of the domain, for a query every section matches
search_sections_fts(table, d) == { doc \in table : doc.domain = d /\ doc.sections }

\* get_sections_by_document (storage.py 357-371): the document of that
\* domain and path; scalar_one_or_none raises when there are several
get_sections_by_document(table, d, path) ==
    LET found == { doc \in table : doc.domain = d /\ doc.path = path }
    IN  IF found = {} THEN [outcome |-> "NoResults", rows |-> {}]
        ELSE IF Cardinality(found) > 1
        THEN [outcome |-> "MultipleResultsFound", rows |-> {}]
        ELSE IF \E doc \in found : doc.sections
        THEN [outcome |-> "Success", rows |-> found]
        ELSE [outcome |-> "NoResults", rows |-> {}]

Observed(op, d, outcome, rows) ==
    [op |-> op, domain |-> d, outcome |-> outcome,
     gens |-> { doc.gen : doc \in rows },
     active |-> ActiveGens(d), crawled |-> d \in everCrawled,
     query |-> << >>, storage |-> TRUE, results |-> Cardinality(rows)]

\* the search queries: empty, whitespace only, a word, a word after a space
Queries == { << >>, <<SP, NL>>, <<"w">>, <<SP, "w">> }

RECURSIVE lstrip(_)
lstrip(s) == IF s # << >> /\ IsSpace(Head(s)) THEN lstrip(Tail(s)) ELSE s

Reverse(s) == [ i \in 1..Len(s) |-> s[Len(s) + 1 - i] ]

\* str.strip()
str_strip(s) == Reverse(lstrip(Reverse(lstrip(s))))

\* mutant: only the empty query is rejected
RejectsQuery_EmptyOnly(query) == query = << >>

\* not query or not query.strip() (service.py 88)
RejectsQuery(query) == query = << >> \/ str_strip(query) = << >>

\* raise ToolError("Search query cannot be empty") (service.py 89)
ToolErrorRead(d, query) ==
    [NoRead EXCEPT !.op = "tome_search", !.domain = d,
                   !.outcome = "ToolError", !.query = query]

\* tome_search (service.py 88-96)
TomeSearch(d, query) ==
    /\ lastRead' = IF RejectsQuery(query) THEN ToolErrorRead(d, query)
                   ELSE LET rows == search_sections_fts(docs, d)
                        IN  [Observed("tome_search", d,
                                IF rows # {} THEN "Success" ELSE "NoResults",
                                rows) EXCEPT !.query = query]
    /\ UNCHANGED <<phase, dom, gen, maxDepth, req, result, docs, nextGen, everCrawled>>
    /\ UNCHANGED chunkVars

\* tome_get(domain, "INDEX") (service.py 44-64)
TomeGet(d) ==
    /\ lastRead' = LET r == get_sections_by_document(docs, d, Manifest)
                   IN  Observed("tome_get", d, r.outcome, r.rows)
    /\ UNCHANGED <<phase, dom, gen, maxDepth, req, result, docs, nextGen, everCrawled>>
    /\ UNCHANGED chunkVars

Next ==
    \/ \E c \in Crawls, d \in Domains, md \in 0..MaxDepthArg : Start(c, d, md)
    \/ \E c \in Crawls, u \in Urls : FetchError(c, u)
    \/ \E c \in Crawls, u \in Urls, resp \in Responses : SkipResponse(c, u, resp)
    \/ \E c \in Crawls, u \in Urls : InsertDocument(c, u)
    \/ \E c \in Crawls, u \in Urls : SaveSections(c, u)
    \/ \E c \in Crawls, u \in Urls : ChunkRaises(c, u)
    \/ \E c \in Crawls : RunRaises(c)
    \/ \E c \in Crawls : Activate(c)
    \/ \E c \in Crawls : ActivateFails(c)
    \/ \E c \in Crawls : Cleanup(c)
    \/ \E c \in Crawls : CleanupFails(c)
    \/ \E d \in Domains, query \in Queries : TomeSearch(d, query)
    \/ \E d \in Domains : TomeGet(d)

Spec == Init /\ [][Next]_vars

\* what call c does next unless something raises: a queued request is
\* answered (or its fetch times out) and handled, then the generation is
\* activated and the old ones are cleaned up
Work(c) ==
    \/ \E u \in Urls : FetchError(c, u)
    \/ \E u \in Urls, resp \in Responses : SkipResponse(c, u, resp)
    \/ \E u \in Urls : InsertDocument(c, u)
    \/ \E u \in Urls : SaveSections(c, u)
    \/ \E u \in Urls : ChunkRaises(c, u)
    \/ Activate(c)
    \/ Cleanup(c)
    \/ CleanupFails(c)

\* the steps of the ingest_domain calls; the readers change nothing a call
\* depends on
NextCrawl ==
    \/ \E c \in Crawls, d \in Domains, md \in 0..MaxDepthArg : Start(c, d, md)
    \/ \E c \in Crawls : Work(c)
    \/ \E c \in Crawls : RunRaises(c)
    \/ \E c \in Crawls : ActivateFails(c)

\* every fetch answers or times out and every awaited call returns or
\* raises: a call that can go on does go on
LiveSpec ==
    Init /\ [][NextCrawl]_vars /\ \A c \in Crawls : WF_vars(Work(c))

\* ================================================================ chunker
RECURSIVE LinesToTexts(_)
LinesToTexts(n) ==
    IF n = 1 THEN { <<l>> : l \in LineVocabulary }
    ELSE LinesToTexts(n - 1) \cup
         { Append(t, l) : t \in { u \in LinesToTexts(n - 1) : Len(u) = n - 1 },
                          l \in LineVocabulary }

\* every text of 1..MaxLines vocabulary lines
InputTexts == { Join(ls) : ls \in LinesToTexts(MaxLines) }

\* the arena can never need more nodes than a root plus one per line
MaxNodes == MaxLines + 2

InitChunk ==
    /\ CrawlIdle
    /\ content \in InputTexts
    /\ max_tokens \in 1..MaxTokens
    /\ nodes = <<>>
    /\ stack = <<>>
    /\ status = "start"
    /\ error = "none"
    /\ reconstructed = NoText
    /\ StoreIdle
    /\ AuxIdle

\* indices base+1..base+n of the sections that are over budget, in order
OverBudget(sections, base, budget) ==
    SelectSeqBy([ i \in 1..Len(sections) |-> base + i ],
                { base + i : i \in { j \in 1..Len(sections) :
                      count_tokens(sections[j].content) > budget } })

\* what a call leaves behind when it did not raise: the arena, the recursive
\* calls still to make, and whether any is left
Outcome(tree, pending) ==
    [nodes |-> tree, stack |-> pending,
     status |-> IF pending = <<>> THEN "returned" ELSE "running",
     error |-> "none"]

Raised(which) ==
    [nodes |-> <<>>, stack |-> <<>>, status |-> "raised", error |-> which]

\* the root over the top-level sections (chunker.py 90-100): content "",
\* the sections as children, the over-budget ones pending
RootOver(sections, budget) ==
    Outcome(<< SectionData(NoneHeading, 0, <<>>,
                 [ i \in 1..Len(sections) |-> 1 + i ]) >> \o sections,
            OverBudget(sections, 1, budget))

\* chunk_markdown up to its recursive calls (chunker.py 74-100)
chunk_markdown(text, budget) ==
    IF count_tokens(text) <= budget
    THEN Outcome(<< SectionData(NoneHeading, 0, text, <<>>) >>, <<>>)
    ELSE IF _split_by_top_level_headings(Split(text)) = <<>>
    THEN Raised("content")
    ELSE RootOver(_split_by_top_level_headings(Split(text)), budget)

\* tree[i] rebuilt as intro plus sub_sections (chunker.py 127-146): the
\* sub-sections are appended to the arena, the over-budget ones are chunked
\* before the calls still pending (rest)
Subdivide(tree, i, rest, budget, lines, sub_sections) ==
    Outcome([tree EXCEPT
               ![i] = SectionData(tree[i].heading, tree[i].level,
                        _extract_intro(lines, sub_sections),
                        [ k \in 1..Len(sub_sections) |-> Len(tree) + k ])]
            \o sub_sections,
            OverBudget(sub_sections, Len(tree), budget) \o rest)

\* mutant: an over-budget section without sub-headings is kept as a leaf
\* instead of raising
_chunk_section_NoRaise(tree, i, rest, budget) ==
    IF _split_by_subheadings(Split(tree[i].content), tree[i].level) = <<>>
    THEN Outcome(tree, rest)
    ELSE Subdivide(tree, i, rest, budget, Split(tree[i].content),
                   _split_by_subheadings(Split(tree[i].content), tree[i].level))

\* one call of _chunk_section on the over-budget section tree[i]
\* (chunker.py 116-146)
_chunk_section(tree, i, rest, budget) ==
    IF _split_by_subheadings(Split(tree[i].content), tree[i].level) = <<>>
    THEN Raised("section")
    ELSE Subdivide(tree, i, rest, budget, Split(tree[i].content),
                   _split_by_subheadings(Split(tree[i].content), tree[i].level))

ChunkMarkdown ==
    /\ status = "start"
    /\ \E r \in { chunk_markdown(content, max_tokens) } :
          /\ nodes' = r.nodes
          /\ stack' = r.stack
          /\ status' = r.status
          /\ error' = r.error
    /\ UNCHANGED <<content, max_tokens, reconstructed>>
    /\ UNCHANGED storeVars
    /\ UNCHANGED crawlVars
    /\ UNCHANGED auxVars

ChunkSection ==
    /\ status = "running"
    /\ stack # <<>>
    /\ Len(nodes) <= MaxNodes
    /\ \E r \in { _chunk_section(nodes, Head(stack), Tail(stack), max_tokens) } :
          /\ nodes' = r.nodes
          /\ stack' = r.stack
          /\ status' = r.status
          /\ error' = r.error
    /\ UNCHANGED <<content, max_tokens, reconstructed>>
    /\ UNCHANGED storeVars
    /\ UNCHANGED crawlVars
    /\ UNCHANGED auxVars

\* reconstruct_content applied to the returned root
Reconstruct ==
    /\ status = "returned"
    /\ reconstructed = NoText
    /\ reconstructed' = reconstruct_content(nodes, 1)
    /\ UNCHANGED <<content, max_tokens, nodes, stack, status, error>>
    /\ UNCHANGED storeVars
    /\ UNCHANGED crawlVars
    /\ UNCHANGED auxVars

\* ------------------------------------------------- flatten_section_tree
\* mutant: the counter advances before the Section takes its position
Emit_CountFromOne(document_id, parent_id, node, acc) ==
    [sections |-> Append(acc.sections,
                    Section(document_id, parent_id, node, acc.position + 1)),
     position |-> acc.position + 1]

\* the Section for node is appended at the running position, which advances
\* (crawler.py 88-98)
Emit(document_id, parent_id, node, acc) ==
    [sections |-> Append(acc.sections,
                    Section(document_id, parent_id, node, acc.position)),
     position |-> acc.position + 1]

RECURSIVE walk(_, _, _, _, _)
RECURSIVE walk_children(_, _, _, _, _)
\* walk(node, parent_id) on node tree[i]; acc is the list and the counter
\* (crawler.py 86-102). The children get section.id, read off the Section
\* that was just constructed.
walk(document_id, tree, i, parent_id, acc) ==
    IF tree[i].content # << >> \/ tree[i].children # << >>
    THEN walk_children(document_id, tree, tree[i].children,
             Section(document_id, parent_id, tree[i], acc.position).id,
             Emit(document_id, parent_id, tree[i], acc))
    ELSE acc

walk_children(document_id, tree, kids, parent_id, acc) ==
    IF kids = << >> THEN acc
    ELSE walk_children(document_id, tree, Tail(kids), parent_id,
             walk(document_id, tree, Head(kids), parent_id, acc))

flatten_section_tree(tree, document_id) ==
    walk(document_id, tree, 1, NoneId,
         [sections |-> << >>, position |-> 0]).sections

\* handle_document flattens the tree chunk_markdown returned
\* (crawler.py 191-192)
Flatten ==
    /\ status = "returned"
    /\ ~flat.done
    /\ flat' = [done |-> TRUE,
                sections |-> flatten_section_tree(nodes, Ingested)]
    /\ UNCHANGED <<content, max_tokens, nodes, stack, status, error,
                   reconstructed, got, stored, session>>
    /\ UNCHANGED crawlVars
    /\ UNCHANGED auxVars

\* ------------------------------------------------- tome_get on a document
NoResults == << "NoResults" >>

\* ORDER BY position (storage.py 342-371)
order_by_position(rows) ==
    [ k \in 1..Cardinality(rows) |->
        CHOOSE r \in rows :
            Cardinality({ q \in rows : q.position < r.position }) = k - 1 ]

\* the section contents that are not empty, in order
NonEmptyContents(sections) ==
    [ k \in 1..Len(SelectSeqBy(sections,
                   { r \in { sections[j] : j \in 1..Len(sections) } :
                       r.content # << >> })) |->
        SelectSeqBy(sections,
            { r \in { sections[j] : j \in 1..Len(sections) } :
                r.content # << >> })[k].content ]

\* "\n\n".join(parts)
RECURSIVE JoinBlankLine(_)
JoinBlankLine(parts) ==
    IF parts = << >> THEN << >>
    ELSE IF Len(parts) = 1 THEN Head(parts)
    ELSE Head(parts) \o <<NL, NL>> \o JoinBlankLine(Tail(parts))

\* tome_get without a heading (service.py 57-64)
tome_get(sections) ==
    IF sections = << >> THEN NoResults
    ELSE JoinBlankLine(NonEmptyContents(sections))

\* tome_get(domain, path) on the ingested document, whose stored sections
\* are the list handle_document passed to save_sections
GetContent ==
    /\ flat.done
    /\ got = NoText
    /\ got' = tome_get(order_by_position(
                  { flat.sections[j] : j \in 1..Len(flat.sections) }))
    /\ UNCHANGED <<content, max_tokens, nodes, stack, status, error,
                   reconstructed, flat, stored, session>>
    /\ UNCHANGED crawlVars
    /\ UNCHANGED auxVars

NextChunk ==
    ChunkMarkdown \/ ChunkSection \/ Reconstruct \/ Flatten \/ GetContent

ChunkSpec == InitChunk /\ [][NextChunk]_vars

\* ------------------------------------------------- save_sections (storage)
MaxTreeNodes == 4

NodeNames == <<"a", "b", "c", "d", "e", "f", "g", "h">>

\* p[i] is the parent of node i; node 1 is the root
ParentMaps(n) ==
    { p \in [1..n -> 0..(n - 1)] :
        p[1] = 0 /\ \A i \in 2..n : p[i] >= 1 /\ p[i] < i }

ChildrenOf(p, i) ==
    SelectSeqBy([ k \in 1..Len(p) |-> k ], { j \in 1..Len(p) : p[j] = i })

RECURSIVE Depth(_, _)
Depth(p, i) == IF i = 1 THEN 0 ELSE 1 + Depth(p, p[i])

TreeOf(p, c) ==
    [ i \in 1..Len(p) |->
        SectionData(IF i = 1 THEN NoneHeading ELSE << NodeNames[i] >>,
                    Depth(p, i), c[i], ChildrenOf(p, i)) ]

\* every SectionData tree of up to MaxTreeNodes nodes, each node with empty
\* or non-empty content
Trees ==
    UNION { { TreeOf(p, c) : p \in ParentMaps(n),
                             c \in [1..n -> { << >>, <<"w">> }] } :
            n \in 1..MaxTreeNodes }

\* gen_random_uuid(): an id no row has, one per position of this call
NewId(rows, position) ==
    << "s", Cardinality({ r.id : r \in rows }) + position + 1 >>

\* session.add(section); await session.flush() (storage.py 301-312): the
\* row is sent with the id the server gave it
Flushed(document_id, parent_id, node, acc, rows) ==
    [sections |-> Append(acc.sections,
                    SectionRow(NewId(rows, acc.position), document_id,
                               parent_id, node, acc.position)),
     position |-> acc.position + 1]

RECURSIVE save_tree(_, _, _, _, _, _)
RECURSIVE save_children(_, _, _, _, _, _)
\* save_tree(node, parent_id) on node tree[i] (storage.py 293-318)
save_tree(document_id, tree, i, parent_id, acc, rows) ==
    IF tree[i].content # << >> \/ tree[i].children # << >>
    THEN save_children(document_id, tree, tree[i].children,
             NewId(rows, acc.position),
             Flushed(document_id, parent_id, tree[i], acc, rows), rows)
    ELSE acc

save_children(document_id, tree, kids, parent_id, acc, rows) ==
    IF kids = << >> THEN acc
    ELSE save_children(document_id, tree, Tail(kids), parent_id,
             save_tree(document_id, tree, Head(kids), parent_id, acc, rows),
             rows)

\* mutant: the delete is committed on its own
SaveDelete_Autocommit ==
    /\ status = "returned"
    /\ session.state = "closed"
    /\ \E d \in Documents :
          /\ session' = [state |-> "open", document_id |-> d,
                         deleted |-> {}, added |-> << >>]
          /\ stored' = { r \in stored : r.document_id # d }
    /\ UNCHANGED <<content, max_tokens, nodes, stack, status, error,
                   reconstructed, flat, got>>
    /\ UNCHANGED crawlVars
    /\ UNCHANGED auxVars

\* save_sections(document_id, sections) opens a session and executes the
\* delete of the document's sections in it (storage.py 259-262)
SaveDelete ==
    /\ status = "returned"
    /\ session.state = "closed"
    /\ \E d \in Documents :
          session' = [state |-> "open", document_id |-> d,
                      deleted |-> { r \in stored : r.document_id = d },
                      added |-> << >>]
    /\ UNCHANGED <<content, max_tokens, nodes, stack, status, error,
                   reconstructed, flat, got, stored>>
    /\ UNCHANGED crawlVars
    /\ UNCHANGED auxVars

\* count = await save_tree(sections, None) (storage.py 320): the rows are
\* flushed inside the session's transaction
SaveTree ==
    /\ session.state = "open"
    /\ session' = [session EXCEPT
          !.state = "flushed",
          !.added = save_tree(session.document_id, nodes, 1, NoneId,
                        [sections |-> << >>, position |-> 0],
                        stored).sections]
    /\ UNCHANGED <<content, max_tokens, nodes, stack, status, error,
                   reconstructed, flat, got, stored>>
    /\ UNCHANGED crawlVars
    /\ UNCHANGED auxVars

\* await session.commit() (storage.py 321)
SaveCommit ==
    /\ session.state = "flushed"
    /\ stored' = (stored \ session.deleted)
                 \cup { session.added[k] : k \in 1..Len(session.added) }
    /\ session' = [session EXCEPT !.state = "committed"]
    /\ UNCHANGED <<content, max_tokens, nodes, stack, status, error,
                   reconstructed, flat, got>>
    /\ UNCHANGED crawlVars
    /\ UNCHANGED auxVars

\* a statement or the commit raises: leaving the async with block closes
\* the session, which rolls its transaction back (storage.py 259)
SaveFails ==
    /\ session.state \in {"open", "flushed"}
    /\ session' = [session EXCEPT !.state = "rolled back"]
    /\ UNCHANGED <<content, max_tokens, nodes, stack, status, error,
                   reconstructed, flat, got, stored>>
    /\ UNCHANGED crawlVars
    /\ UNCHANGED auxVars

\* ----------------------------------------------------------- tome_toc
\* (id, parent_section_id, heading, level) of the rows, ORDER BY position
\* (storage.py 609-619)
get_sections_for_toc(rows) ==
    [ k \in 1..Cardinality(rows) |->
        [id |-> order_by_position(rows)[k].id,
         parent_section_id |-> order_by_position(rows)[k].parent_section_id,
         heading |-> order_by_position(rows)[k].heading,
         level |-> order_by_position(rows)[k].level] ]

\* the sections as stored by a chunker that found an empty heading text at
\* the positions in blank
WithBlankHeadings(sections, blank) ==
    [ k \in 1..Len(sections) |->
        IF k \in blank THEN [sections[k] EXCEPT !.heading = << >>]
        ELSE sections[k] ]

\* if heading: None and "" are false
HasHeading(section) == section.heading # NoneHeading /\ section.heading # << >>

\* first loop (service.py 152-155): the sections with a heading, in order
TocNodes(sections) ==
    SelectSeqBy(sections, { sections[k] : k \in { j \in 1..Len(sections) :
                                                    HasHeading(sections[j]) } })

\* mutant: a parent id is followed without looking it up in nodes
IsTocNode_AnyParent(entries, parent_id) == parent_id # NoneId

\* if parent_id and parent_id in nodes (service.py 162)
IsTocNode(entries, parent_id) ==
    /\ parent_id # NoneId
    /\ \E j \in 1..Len(entries) : entries[j].id = parent_id

RECURSIVE LinkToc(_, _, _)
\* second loop (service.py 160-167) from the k-th node on: acc holds the
\* root entries and the children list of every entry, by section id
LinkToc(entries, k, acc) ==
    IF k > Len(entries) THEN acc
    ELSE IF IsTocNode(entries, entries[k].parent_section_id)
    THEN LinkToc(entries, k + 1,
            [acc EXCEPT !.children =
               [ id \in DOMAIN acc.children |->
                   IF id = entries[k].parent_section_id
                   THEN Append(acc.children[id], entries[k].id)
                   ELSE acc.children[id] ]])
    ELSE LinkToc(entries, k + 1,
            [acc EXCEPT !.roots = Append(acc.roots, entries[k].id)])

_build_toc_tree(sections) ==
    LinkToc(TocNodes(sections), 1,
            [roots |-> << >>,
             children |-> [ id \in { TocNodes(sections)[j].id :
                                      j \in 1..Len(TocNodes(sections)) } |-> << >> ]])

\* tome_toc on a document whose sections were saved (service.py 124-134)
BuildToc ==
    /\ session.state = "committed"
    /\ ~toc.done
    /\ \E blank \in { {} } \cup { {k} : k \in 1..MaxTreeNodes } :
          \E secs \in { WithBlankHeadings(
                          get_sections_for_toc(
                            { r \in stored : r.document_id = session.document_id }),
                          blank) } :
             toc' = [done |-> TRUE, sections |-> secs,
                     entries |-> _build_toc_tree(secs)]
    /\ UNCHANGED <<raw_urls, parsed>>
    /\ UNCHANGED <<content, max_tokens, nodes, stack, status, error,
                   reconstructed, storeVars>>
    /\ UNCHANGED crawlVars

InitStore ==
    /\ CrawlIdle
    /\ content = << >>
    /\ max_tokens = 1
    /\ nodes \in Trees
    /\ stack = << >>
    /\ status = "returned"
    /\ error = "none"
    /\ reconstructed = NoText
    /\ StoreIdle
    /\ AuxIdle

NextStore ==
    \/ Flatten
    \/ GetContent
    \/ SaveDelete
    \/ SaveTree
    \/ SaveCommit
    \/ SaveFails
    \/ BuildToc

StoreSpec == InitStore /\ [][NextStore]_vars

\* the nodes of the tree in depth-first pre-order: a node before its
\* children, the children in document order
RECURSIVE PreOrder(_, _)
RECURSIVE PreOrderAll(_, _)
PreOrder(tree, i) == <<i>> \o PreOrderAll(tree, tree[i].children)

PreOrderAll(tree, kids) ==
    IF kids = << >> THEN << >>
    ELSE PreOrder(tree, Head(kids)) \o PreOrderAll(tree, Tail(kids))

\* the nodes that have content or children, in pre-order
EmittedNodes(tree) ==
    SelectSeqBy(PreOrder(tree, 1),
                { i \in 1..Len(tree) :
                    tree[i].content # << >> \/ tree[i].children # << >> })

ParentNode(tree, i) ==
    CHOOSE j \in 1..Len(tree) :
        \E k \in 1..Len(tree[j].children) : tree[j].children[k] = i

IndexOf(seq, x) == CHOOSE k \in 1..Len(seq) : seq[k] = x

\* sections[k] is the section of the k-th emitted node: the root's has no
\* parent, every other one names the id of the section of its parent node,
\* which comes earlier
ParentLinked(tree, emitted, sections) ==
    \A k \in 1..Len(sections) :
        IF emitted[k] = 1
        THEN sections[k].parent_section_id = NoneId
        ELSE /\ sections[k].parent_section_id # NoneId
             /\ IndexOf(emitted, ParentNode(tree, emitted[k])) < k
             /\ sections[k].parent_section_id =
                   sections[IndexOf(emitted, ParentNode(tree, emitted[k]))].id

\* sections[k] has position k - 1 and the fields of the k-th emitted node
InPreOrder(tree, emitted, sections) ==
    /\ Len(sections) = Len(emitted)
    /\ \A k \in 1..Len(sections) :
          /\ sections[k].position = k - 1
          /\ sections[k].heading = tree[emitted[k]].heading
          /\ sections[k].level = tree[emitted[k]].level
          /\ sections[k].content = tree[emitted[k]].content

\* ---------------------------------------------------- parse_llms_txt_links
MaxLinks == 3

\* A URL is a sequence of tokens: a scheme with its authority, "/", "#",
\* "mailto:" and names.
BaseUrl == <<"https://d1.dev", "/", "llms.txt">>

\* link destinations: a same-page anchor, two mail addresses, a relative
\* path, an absolute path, a full URL of the same page, a page with a
\* fragment, a page of another site
RawUrls ==
    { <<"#", "top">>, <<"mailto:", "a@b.c">>, <<"MAILTO:", "a@b.c">>,
      <<"a">>, <<"/", "a">>, <<"https://d1.dev", "/", "a">>,
      <<"a", "#", "top">>, <<"https://docs.other.org", "/", "x">> }

RECURSIVE RawLists(_)
RawLists(n) ==
    IF n = 0 THEN { << >> }
    ELSE RawLists(n - 1) \cup
         { Append(l, u) : l \in { k \in RawLists(n - 1) : Len(k) = n - 1 },
                          u \in RawUrls }

\* url.startswith(prefix) for a one-token prefix
startswith(url, prefix) == url # << >> /\ Head(url) = prefix

\* urllib.parse.urljoin(base, url) for a base whose path is one segment: a
\* URL with a scheme is kept, a reference replaces the path (absolute) or
\* the last segment (relative) of the base
urljoin(base, url) ==
    IF Head(url) \in {"https://d1.dev", "https://docs.other.org",
                      "mailto:", "MAILTO:"}
    THEN url
    ELSE IF Head(url) = "/" THEN <<Head(base)>> \o url
    ELSE IF Head(url) = "#" THEN base \o url
    ELSE <<Head(base), "/">> \o url

\* mutant: every resolved URL is appended
AddLink_NoDedup(found, absolute_url) == Append(found, absolute_url)

\* if absolute_url not in seen: seen.add; links.append (parser.py 45-48)
AddLink(found, absolute_url) ==
    IF \E i \in 1..Len(found) : found[i] = absolute_url THEN found
    ELSE Append(found, absolute_url)

RECURSIVE parse_llms_txt_links(_, _, _)
\* the loop over raw_urls (parser.py 36-50), found being the list so far
parse_llms_txt_links(urls, base_url, found) ==
    IF urls = << >> THEN found
    ELSE IF startswith(Head(urls), "#") \/ startswith(Head(urls), "mailto:")
    THEN parse_llms_txt_links(Tail(urls), base_url, found)
    ELSE parse_llms_txt_links(Tail(urls), base_url,
             AddLink(found, urljoin(base_url, Head(urls))))

ParseLinks ==
    /\ ~parsed.done
    /\ parsed' = [done |-> TRUE,
                 links |-> parse_llms_txt_links(raw_urls, BaseUrl, << >>)]
    /\ UNCHANGED <<raw_urls, toc>>
    /\ UNCHANGED <<content, max_tokens, nodes, stack, status, error,
                   reconstructed, storeVars>>
    /\ UNCHANGED crawlVars

InitParse ==
    /\ CrawlIdle
    /\ ChunkIdle
    /\ raw_urls \in RawLists(MaxLinks)
    /\ parsed = NotParsed
    /\ toc = NoToc

NextParse == ParseLinks

ParseSpec == InitParse /\ [][NextParse]_vars

\* ------------------------------------------------------- chunker properties
\* C1: whenever chunk_markdown returned a tree, reconstruct_content of that
\* tree equals the input text character for character.
C1_RoundTrip == reconstructed # NoText => reconstructed = content

\* C2: in every returned tree, every node's own content (leaf content and the
\* intro content of split nodes) has count_tokens(content) <= max_tokens.
C2_EveryNodeWithinBudget ==
    status = "returned" =>
        \A i \in 1..Len(nodes) : count_tokens(nodes[i].content) <= max_tokens

\* a section has no heading strictly deeper than its own level
NoDeeperHeading(section) ==
    LET hs == _find_headings(section.content)
    IN  \A k \in 1..Len(hs) : hs[k].level <= section.level

\* C8: a text over budget without any heading makes chunk_markdown raise
\* BrokenInvariant, and so does a section that is over budget and has no
\* heading strictly deeper than its own level; no tree is returned then.
C8_RaisesWithoutBoundary ==
    [][ /\ ( /\ status = "start"
             /\ count_tokens(content) > max_tokens
             /\ _find_headings(content) = <<>> )
           => (status' = "raised" /\ nodes' = <<>>)
        /\ ( /\ status = "running"
             /\ count_tokens(nodes[Head(stack)].content) > max_tokens
             /\ NoDeeperHeading(nodes[Head(stack)]) )
           => (status' = "raised" /\ nodes' = <<>>)
        /\ status = "raised" => (status' = "raised" /\ nodes' = <<>>) ]_vars

\* C8 witness: a section below the root raised the error
C8_Witness == status = "raised" /\ error = "section" /\ nodes = <<>>

\* the number of lines of the sections whose _chunk_section call is pending
RECURSIVE PendingLines(_, _)
PendingLines(tree, idxs) ==
    IF idxs = <<>> THEN 0
    ELSE Len(Split(tree[Head(idxs)].content)) + PendingLines(tree, Tail(idxs))

\* C9: chunk_markdown terminates: every recursive call strictly decreases the
\* number of pending lines (it only splits at headings below the section's
\* own heading line), and a call that has neither returned nor raised always
\* has a next step to take, so every run ends in "returned" or "raised".
C9_Terminates ==
    [][ /\ status = "running" =>
              /\ PendingLines(nodes', stack') < PendingLines(nodes, stack)
              /\ PendingLines(nodes', stack') >= 0
        /\ status = "start" => status' # "start"
        /\ status' = "running" => (stack' # <<>> /\ Len(nodes') <= MaxNodes)
        /\ status' \in {"running", "returned", "raised"} ]_vars

\* C9 witness: a returned tree in which a section was split below the root
\* (a recursive call happened and ended)
C9_Witness ==
    /\ status = "returned"
    /\ \E i \in 2..Len(nodes) : nodes[i].children # <<>>

\* ------------------------------------------------------- crawler properties
\* C3: each domain has at most one active generation, under any
\* interleaving of ingest_domain runs, activations and cleanups.
C3_AtMostOneActiveGeneration ==
    \A d \in Domains : Cardinality(ActiveGens(d)) <= 1

\* C3 witness: both concurrent calls have activated their generation for the
\* same domain, and documents of both generations are stored
C3_Witness ==
    /\ phase[1] \in {"activated", "Success"}
    /\ phase[2] \in {"activated", "Success"}
    /\ dom[1] = dom[2]
    /\ \E x \in docs, y \in docs : x.domain = dom[1] /\ y.domain = dom[1]
                                   /\ x.gen = gen[1] /\ y.gen = gen[2]

\* C4: for a domain that was successfully crawled, tome_get and tome_search
\* never come back without a result and never return documents of two
\* different generations.
C4_ReadersSeeExactlyOneGeneration ==
    (lastRead.op # "none" /\ lastRead.crawled) =>
        (lastRead.outcome = "Success" /\ Cardinality(lastRead.gens) = 1)

\* C5: when the manifest could not be fetched, ingest_domain does not
\* activate its generation and ends with TransientError.
C5_NoActivationWithoutManifest ==
    \A c \in Crawls :
        (req[c][Manifest].st = "failed" /\ req[c][Manifest].err = "fetch")
            => phase[c] \in {"crawling", "TransientError"}

\* C6: tome_get and tome_search only return data of the generation that is
\* active for the domain when they run.
C6_ReadsOnlyActiveGeneration == lastRead.gens \subseteq lastRead.active

\* C7: no request of a crawl has a depth greater than max_depth, the manifest
\* is at depth 0, and with max_depth = 0 the manifest is the only request
\* the crawl ever issues.
C7_DepthBound ==
    \A c \in Crawls :
        /\ \A u \in Urls : req[c][u].st # "none" => req[c][u].depth <= maxDepth[c]
        /\ req[c][Manifest].depth = 0
        /\ maxDepth[c] = 0 => \A u \in Urls \ {Manifest} : req[c][u].st = "none"

\* C7 witness: /a was handled at depth max_depth, its sections are stored,
\* and its link /b was not enqueued
C7_Witness ==
    \E c \in Crawls :
        /\ req[c]["/a"].st = "handled"
        /\ req[c]["/a"].depth = maxDepth[c]
        /\ \E doc \in docs : doc.gen = gen[c] /\ doc.url = "/a" /\ doc.sections
        /\ req[c]["/b"].st = "none"

\* C10: when the fetch of a linked document failed and the crawl went on to
\* activate its generation, the ingest result has an entry for that document.
C10_LinkedFetchFailureRecorded ==
    \A c \in Crawls : \A u \in Urls \ {Manifest} :
        ( /\ req[c][u].st = "failed"
          /\ req[c][u].err = "fetch"
          /\ phase[c] \in {"activated", "Success"} )
            => \E i \in 1..Len(result[c].errors) : result[c].errors[i].url = u

\* C11: when chunk_markdown raised for a fetched document and the crawl went
\* on to activate its generation, the ingest result has an entry for that
\* document.
C11_ChunkErrorRecorded ==
    \A c \in Crawls : \A u \in Urls :
        ( /\ req[c][u].st = "failed"
          /\ req[c][u].err = "chunk"
          /\ phase[c] \in {"activated", "Success"} )
            => \E i \in 1..Len(result[c].errors) : result[c].errors[i].url = u

\* C12: the step in which handle_document skips a response (wrong content
\* type or undecodable body) inserts no document and saves no sections,
\* enqueues no link, appends exactly one entry for the URL to the ingest
\* result, and leaves the crawl running with its other requests untouched.
C12_SkippedResponse ==
    [][\A c \in Crawls, u \in Urls :
         (req[c][u].st = "queued" /\ req'[c][u].st = "handled") =>
            /\ docs' = docs
            /\ \A v \in Urls \ {u} : req'[c][v] = req[c][v]
            /\ Len(result'[c].errors) = Len(result[c].errors) + 1
            /\ SubSeq(result'[c].errors, 1, Len(result[c].errors)) = result[c].errors
            /\ result'[c].errors[Len(result'[c].errors)].url = u
            /\ result'[c].errors[Len(result'[c].errors)].kind = "Invalid content type"
                  => \/ result'[c].errors[Len(result'[c].errors)].detail = NoHeader
                     \/ MediaType(result'[c].errors[Len(result'[c].errors)].detail)
                           \notin { <<t>> : t \in ALLOWED_CONTENT_TYPES }
            /\ result'[c].documents_added = result[c].documents_added
            /\ phase'[c] = "crawling"]_vars

\* C12 witness: the manifest of a crawl with max_depth 1 came back without a
\* content type; it was skipped, nothing of the generation is stored and its
\* link /a was not enqueued
C12_Witness ==
    \E c \in Crawls :
        /\ maxDepth[c] = 1
        /\ req[c][Manifest].st = "handled"
        /\ result[c].errors = << [kind |-> "Invalid content type",
                                  detail |-> NoHeader, url |-> Manifest] >>
        /\ ~\E doc \in docs : doc.gen = gen[c]
        /\ req[c]["/a"].st = "none"
        /\ phase[c] = "activated"

\* C13: an ingest_domain call that has activated its generation always ends
\* with Success; when cleanup_old_generations failed, the documents are as
\* they were (the generation that was active stays active) and the result
\* gets exactly one entry, for the failed cleanup.
C13_CleanupFailureIsNotFatal ==
    [][\A c \in Crawls :
         (phase[c] = "activated" /\ phase'[c] # "activated") =>
            /\ phase'[c] = "Success"
            /\ gen[c] \in ActiveGens(dom[c]) => gen[c] \in ActiveGens(dom[c])'
            /\ result'[c].documents_added = result[c].documents_added
            /\ result'[c].errors # result[c].errors =>
                  /\ docs' = docs
                  /\ result'[c].errors =
                        Append(result[c].errors,
                               [kind |-> "Cleanup failed", detail |-> <<>>,
                                url |-> "none"])]_vars

\* C13 witness: a call returned Success with the failed cleanup as its only
\* entry, its generation is active and the generation before it is still
\* stored
C13_Witness ==
    \E c \in Crawls :
        /\ phase[c] = "Success"
        /\ result[c].errors = << [kind |-> "Cleanup failed", detail |-> <<>>,
                                  url |-> "none"] >>
        /\ gen[c] \in ActiveGens(dom[c])
        /\ \E doc \in docs : doc.domain = dom[c] /\ doc.gen # gen[c] /\ ~doc.active

\* C14: a generation becomes active only in the step in which its own call
\* leaves the fetch phase, with no request of the crawl queued or being
\* handled, and a call activates at most once; documents are deleted only
\* by the cleanup of a call whose activation returned; a call whose
\* activation failed has changed no document and runs no cleanup.
C14_ActivateThenCleanup ==
    [][/\ \A c \in Crawls :
            /\ (phase'[c] = "activated" /\ phase[c] # "activated") =>
                  /\ phase[c] = "crawling"
                  /\ \A u \in Urls : req[c][u].st \notin {"queued", "inserted"}
            /\ phase[c] = "activated" =>
                  /\ phase'[c] \in {"activated", "Success"}
                  /\ gen'[c] = gen[c]
            /\ (phase'[c] = "Success" /\ phase[c] # "Success") =>
                  phase[c] = "activated"
            /\ (phase'[c] = "ActivateError" /\ phase[c] # "ActivateError") =>
                  /\ phase[c] = "crawling"
                  /\ docs' = docs
            /\ phase[c] = "ActivateError" =>
                  \/ phase'[c] = "ActivateError"
                  \/ phase'[c] = "crawling" /\ gen'[c] # gen[c] /\ docs' = docs
       /\ \A d \in Domains : \A g \in ActiveGens(d)' \ ActiveGens(d) :
            \E c \in Crawls : /\ gen[c] = g
                              /\ dom[c] = d
                              /\ phase[c] = "crawling"
                              /\ phase'[c] = "activated"
       /\ (\E doc \in docs : \A x \in docs' : x.id # doc.id) =>
            \E c \in Crawls : phase[c] = "activated" /\ phase'[c] = "Success"]_vars

\* C14 witness: the activation of a call failed after its crawl had stored
\* a document with sections; the generation is not active and the call is
\* over
C14_Witness ==
    \E c \in Crawls :
        /\ phase[c] = "ActivateError"
        /\ \E doc \in docs : doc.gen = gen[c] /\ doc.sections /\ ~doc.active

\* C15: no generation holds two document rows for the same URL.
C15_NoUrlPersistedTwice ==
    \A x \in docs, y \in docs : (x.gen = y.gen /\ x.url = y.url) => x.id = y.id

\* C16: every request a crawl has enqueued and every document stored under
\* a domain has that domain as its registrable domain.
C16_OnlyCrawlDomain ==
    /\ \A c \in Crawls, u \in Urls :
          req[c][u].st # "none" => Domain(UrlHost(u)) = dom[c]
    /\ \A doc \in docs : Domain(UrlHost(doc.url)) = doc.domain

\* ------------------------------------------------------ section properties
\* C19: for an ingested document, joining the contents of its stored
\* sections in position order, as tome_get without a heading does, yields
\* exactly the text that was fetched, whether or not the chunker split it.
C19_TomeGetReproducesText == got # NoText => got = content

\* C17: in the list flatten_section_tree returns, only the root's section
\* has a null parent_section_id; every other section's parent_section_id is
\* the id of the section created for its parent node, which occurs earlier
\* in the list.
C17_ParentLinks ==
    flat.done =>
        /\ Len(flat.sections) = Len(EmittedNodes(nodes))
        /\ ParentLinked(nodes, EmittedNodes(nodes), flat.sections)

\* C18: flatten_section_tree gives its n sections the positions 0..n-1,
\* each once, in depth-first pre-order of the tree; a node with empty
\* content and no children emits no section and consumes no position.
C18_PositionsInPreOrder ==
    flat.done => InPreOrder(nodes, EmittedNodes(nodes), flat.sections)

\* a tree was flattened in which an empty leaf is followed, in pre-order, by
\* a node that emits a section
C18_Witness ==
    /\ flat.done
    /\ Len(flat.sections) >= 2
    /\ \E i \in 2..Len(nodes), j \in 2..Len(nodes) :
          /\ nodes[i].content = << >>
          /\ nodes[i].children = << >>
          /\ nodes[j].content # << >>
          /\ IndexOf(PreOrder(nodes, 1), i) < IndexOf(PreOrder(nodes, 1), j)

\* C20: the sections table changes only when save_sections commits; then
\* the document's rows are exactly those of the saved tree, none of its
\* earlier rows remains and the rows of every other document are unchanged;
\* when the call fails, the table is as it was before the call.
C20_SaveReplaces ==
    [][ /\ stored' # stored =>
              (session.state = "flushed" /\ session'.state = "committed")
        /\ (session.state # "committed" /\ session'.state = "committed") =>
              /\ { r \in stored' : r.document_id # session.document_id }
                   = { r \in stored : r.document_id # session.document_id }
              /\ { r \in stored' : r.document_id = session.document_id }
                   \cap stored = {}
              /\ InPreOrder(nodes, EmittedNodes(nodes),
                     order_by_position(
                       { r \in stored' :
                           r.document_id = session.document_id }))
        /\ session'.state = "rolled back" => stored' = PriorTable
      ]_vars

\* a tree of at least two sections was committed for d1, which had sections
C20_Witness ==
    /\ session.state = "committed"
    /\ session.document_id = "d1"
    /\ Len(session.added) >= 2
    /\ \E r \in PriorTable : r.document_id = "d1" /\ r \notin stored

\* ------------------------------------------------------- reader properties
\* C21: tome_search raises ToolError for every query that is empty or only
\* whitespace, before any storage access; for every other query it returns
\* Success with a non-empty result list or NoResults, never Success with an
\* empty list.
C21_SearchQueryValidation ==
    lastRead.op = "tome_search" =>
        IF \A i \in 1..Len(lastRead.query) : lastRead.query[i] \in {SP, NL}
        THEN lastRead.outcome = "ToolError" /\ ~lastRead.storage
        ELSE \/ lastRead.outcome = "Success" /\ lastRead.results > 0
             \/ lastRead.outcome = "NoResults" /\ lastRead.results = 0

\* a whitespace-only query was rejected while the domain had sections stored
C21_Witness ==
    /\ lastRead.op = "tome_search"
    /\ lastRead.query = <<SP, NL>>
    /\ lastRead.outcome = "ToolError"
    /\ \E doc \in docs : doc.domain = lastRead.domain /\ doc.sections

\* -------------------------------------------------------- parser properties
\* the destinations that are neither a same-page anchor nor a mailto: link
Kept(urls) ==
    { i \in 1..Len(urls) : Head(urls[i]) # "#" /\ Head(urls[i]) # "mailto:" }

\* the first kept destination that resolves to the entry
FirstOccurrence(urls, entry) ==
    CHOOSE i \in Kept(urls) :
        /\ urljoin(BaseUrl, urls[i]) = entry
        /\ \A j \in Kept(urls) : urljoin(BaseUrl, urls[j]) = entry => i <= j

Candidates(headings, has_level, level) ==
    { k \in 1..Len(headings) : ~has_level \/ headings[k].level > level }

\* the candidates at the minimum level among the candidates
AtTopLevel(headings, cand) ==
    { k \in cand : \A j \in cand : headings[k].level <= headings[j].level }

\* where the child of heading k ends: the start line of the next heading in
\* top, or the end of the text
ChildEnd(lines, headings, top, k) ==
    IF \E j \in top : j > k
    THEN headings[CHOOSE j \in top : j > k /\ \A i \in top : i > k => j <= i]
           .start_line
    ELSE Len(lines)

\* children are the sections of the headings in top, in document order, each
\* from its heading's start line to the next one's
ChildrenAre(children, lines, headings, top) ==
    /\ Len(children) = Cardinality(top)
    /\ \A m \in 1..Len(children) :
          \E k \in top :
             /\ Cardinality({ j \in top : j < k }) = m - 1
             /\ children[m].heading = headings[k].text
             /\ children[m].level = headings[k].level
             /\ children[m].content =
                   Join(SubSeq(lines, headings[k].start_line + 1,
                               ChildEnd(lines, headings, top, k)))

SplitAsClaimed(children, text, has_level, level) ==
    ChildrenAre(children, Split(text), _find_headings(text),
                AtTopLevel(_find_headings(text),
                           Candidates(_find_headings(text), has_level, level)))

\* the nodes a parent has after a step
NewChildren(tree, i) == [ m \in 1..Len(tree[i].children) |-> tree[tree[i].children[m]] ]

\* C23: when a text is split, its children are exactly the headings at the
\* minimum heading level present in it (for a sub-section: the minimum among
\* the headings strictly deeper than the section's level), in document
\* order, and each child's content is the lines from its heading's start
\* line up to the next such heading's start line, or to the end of the text.
C23_SplitAtTopLevel ==
    [][ /\ (status = "start" /\ status' # "raised" /\ Len(nodes') > 1) =>
              SplitAsClaimed(NewChildren(nodes', 1), content, FALSE, 0)
        /\ (status = "running" /\ status' # "raised" /\ stack # << >>
              /\ nodes' # nodes) =>
              SplitAsClaimed(NewChildren(nodes', Head(stack)),
                             nodes[Head(stack)].content, TRUE,
                             nodes[Head(stack)].level)
      ]_vars

\* a section was split below its own heading and one of its children holds
\* a still deeper heading
C23_Witness ==
    /\ status # "raised"
    /\ \E i \in 2..Len(nodes) :
          /\ nodes[i].children # << >>
          /\ \E m \in 1..Len(nodes[i].children) :
                \E k \in 1..Len(_find_headings(nodes[nodes[i].children[m]].content)) :
                    _find_headings(nodes[nodes[i].children[m]].content)[k].level
                        > nodes[nodes[i].children[m]].level

\* ---------------------------------------------------------- toc property
\* the index in the section list of the section with this id
PositionOf(sections, id) == CHOOSE k \in 1..Len(sections) : sections[k].id = id

Increasing(sections, ids) ==
    \A a, b \in 1..Len(ids) :
        a < b => PositionOf(sections, ids[a]) < PositionOf(sections, ids[b])

\* how often id occurs among the roots and in the children lists
Placements(entries, id) ==
    Cardinality({ a \in 1..Len(entries.roots) : entries.roots[a] = id })
    + Cardinality({ pk \in { <<p, k>> : p \in DOMAIN entries.children,
                                        k \in 1..MaxTreeNodes } :
                      /\ pk[2] <= Len(entries.children[pk[1]])
                      /\ entries.children[pk[1]][pk[2]] = id })

\* C24: _build_toc_tree places every section that has a heading exactly
\* once: as a child of its parent's entry when the parent section has a
\* heading, otherwise as a root entry; sections without a heading are
\* omitted, and siblings and roots keep position order.
C24_TocForest ==
    toc.done =>
        /\ \A k \in 1..Len(toc.sections) :
              LET s == toc.sections[k]
              IN  IF HasHeading(s)
                  THEN /\ Placements(toc.entries, s.id) = 1
                       /\ IF \E j \in 1..Len(toc.sections) :
                                /\ toc.sections[j].id = s.parent_section_id
                                /\ HasHeading(toc.sections[j])
                          THEN \E a \in 1..Len(toc.entries.children[s.parent_section_id]) :
                                  toc.entries.children[s.parent_section_id][a] = s.id
                          ELSE \E a \in 1..Len(toc.entries.roots) :
                                  toc.entries.roots[a] = s.id
                  ELSE /\ Placements(toc.entries, s.id) = 0
                       /\ s.id \notin DOMAIN toc.entries.children
        /\ Increasing(toc.sections, toc.entries.roots)
        /\ \A p \in DOMAIN toc.entries.children :
              Increasing(toc.sections, toc.entries.children[p])

\* a section under a section without heading text became a root entry next
\* to another root
C24_Witness ==
    /\ toc.done
    /\ Len(toc.entries.roots) >= 2
    /\ \E k, j \in 1..Len(toc.sections) :
          /\ HasHeading(toc.sections[k])
          /\ toc.sections[j].id = toc.sections[k].parent_section_id
          /\ toc.sections[j].heading = << >>

\* ------------------------------------------- overlapping crawls, visibility
\* C25: while an ingest_domain run is still crawling, no step (in particular
\* no cleanup of an overlapping run that activated first) deletes a document
\* of its generation, so an activated generation holds every document its
\* own crawl persisted.
C25_CleanupSparesCrawlInProgress ==
    [][ \A c \in Crawls :
          phase[c] = "crawling" =>
              { doc.id : doc \in { x \in docs : x.gen = gen[c] } }
                 \subseteq { doc.id : doc \in docs' }
      ]_vars

\* C26: ingest_domain activates a generation only if the manifest document
\* was persisted in it; a crawl whose manifest response was skipped or whose
\* handler failed does not activate.
C26_ActivationNeedsManifest ==
    [][ \A c \in Crawls :
          (phase[c] = "crawling" /\ phase'[c] = "activated") =>
              \E doc \in docs : doc.id[1] = gen[c] /\ doc.id[2] = Manifest
      ]_vars

\* C27: every document of an activated generation has its sections stored.
C27_ActiveDocumentsHaveSections ==
    \A doc \in docs : doc.active => doc.sections

\* C28: while a re-crawl of a domain is in progress, a reader of that domain
\* gets exactly the data of the previously active generation.
C28_ReadersKeepPreviousGeneration ==
    ( /\ lastRead.op # "none"
      /\ lastRead.outcome # "ToolError"
      /\ \E c \in Crawls : phase[c] = "crawling" /\ dom[c] = lastRead.domain
      /\ \E g \in lastRead.active :
            /\ lastRead.active = {g}
            /\ \A doc \in docs : doc.gen = g => doc.sections
            /\ \E doc \in docs : doc.gen = g /\ doc.path = Manifest )
        => /\ lastRead.outcome = "Success"
           /\ lastRead.gens = lastRead.active

\* ------------------------------------------------------------- termination
\* C29: every ingest_domain run eventually finishes: it returns Success
\* after activating its generation, or it raises.
C29_EveryRunFinishes ==
    \A c \in Crawls : (phase[c] \in {"crawling", "activated"}) ~> Finished(c)

\* a run returned Success after it stored the manifest and a linked page
C29_Witness ==
    \E c \in Crawls :
        /\ phase[c] = "Success"
        /\ result[c].documents_added >= 2

\* ------------------------------------------------------------ tree levels
RECURSIVE AncestorsOf(_, _)
\* the number of nodes above node i, the root included
AncestorsOf(tree, i) ==
    IF i = 1 THEN 0 ELSE 1 + AncestorsOf(tree, ParentNode(tree, i))

\* the depth at which the breadcrumb query of search_sections_fts stops
\* (WHERE a.depth < 10, storage.py 537)
BreadcrumbCap == 10

\* C30: in every tree of chunk_markdown the root has level 0, every other
\* node a level in 1..6 that is strictly greater than its parent's, so a
\* section has at most 6 ancestors and the breadcrumb query, which follows
\* parents up to depth 10, is never cut short.
C30_LevelsIncrease ==
    nodes # << >> =>
        /\ nodes[1].level = 0
        /\ \A i \in 1..Len(nodes) :
              \A m \in 1..Len(nodes[i].children) :
                  /\ nodes[nodes[i].children[m]].level > nodes[i].level
                  /\ nodes[nodes[i].children[m]].level \in 1..6
        /\ \A i \in 1..Len(nodes) :
              /\ AncestorsOf(nodes, i) <= 6
              /\ 1 + AncestorsOf(nodes, i) < BreadcrumbCap

\* a returned tree with a section three levels below the root
C30_Witness ==
    /\ status = "returned"
    /\ \E i \in 1..Len(nodes) : AncestorsOf(nodes, i) = 3 /\ nodes[i].level = 3

====
